---- MODULE Spec2Model ----
(***************************************************************************)
(* Model of ic50_tsv_app.py: one run of the Streamlit script that loads an *)
(* absorbance table, validates the inputs, subtracts the negative-control  *)
(* background, normalises the treatment columns to percent viability and   *)
(* estimates the IC50 with numpy.interp.                                   *)
(*                                                                         *)
(* Numbers.  The arrays of the script hold IEEE-754 binary64 values, and   *)
(* every operation of the model rounds as binary64 does (to nearest, ties  *)
(* to even).  A float is one of                                            *)
(*   <<"fin", s, M, e>>   the value s * M * 2^e, s = 1 or -1, M an odd     *)
(*                        natural number of at most 53 bits                *)
(*   <<"fin", s, <<>>, 0>>  the zero of sign s                             *)
(*   <<"inf", s>>         the infinity of sign s                           *)
(*   <<"nan">>            NaN                                              *)
(* A natural number is the sequence of its digits in base 2^15, lowest     *)
(* digit first, <<>> for 0: every intermediate value of the arithmetic is  *)
(* then an integer below 2^31.  The multiply-add inside numpy.interp is    *)
(* taken as two rounded operations (no fused multiply-add).                *)
(***************************************************************************)
EXTENDS Integers, Sequences, FiniteSets

VARIABLES
    df,                     \* the loaded table: a sequence of rows of floats; <<>> when no file is loaded
    neg_control_col,        \* number_input, line 53
    no_drug_with_mtt_col,   \* number_input, line 55
    concentrations,         \* parsed text_input, line 58: a sequence of floats
    treatment_cols,         \* parsed text_input, line 61: a sequence of integers
    pc,                     \* position of the script run
    message,                \* what st.warning / st.error / the uncaught exception reports
    absorbance_data,        \* df.to_numpy(), line 76
    background_corrected,   \* line 79
    no_drug_with_mtt_mean,  \* line 82
    viability,              \* line 84
    viability_std,          \* line 85
    ic50_concentration,     \* line 89
    ic50_text               \* f'{ic50_concentration:.2f}', lines 101 and 112

vars == <<df, neg_control_col, no_drug_with_mtt_col, concentrations, treatment_cols,
          pc, message, absorbance_data, background_corrected, no_drug_with_mtt_mean,
          viability, viability_std, ic50_concentration, ic50_text>>

(***************************************************************************)
(* Bounds of the model.                                                    *)
(***************************************************************************)
MaxRows == 3
MaxTreat == 2

(***************************************************************************)
(* Natural numbers of any size, in base 2^15.                              *)
(***************************************************************************)
LimbBits == 15
LimbBase == 32768

Limb(a, i) == IF i <= Len(a) THEN a[i] ELSE 0
Zeros(k) == [i \in 1..k |-> 0]

RECURSIVE BTrim(_)
BTrim(a) ==
    IF a = <<>> THEN a
    ELSE IF a[Len(a)] = 0 THEN BTrim(SubSeq(a, 1, Len(a) - 1)) ELSE a

RECURSIVE BFromInt(_)
BFromInt(n) == IF n = 0 THEN <<>> ELSE <<n % LimbBase>> \o BFromInt(n \div LimbBase)

RECURSIVE BToIntFrom(_, _)
BToIntFrom(a, i) == IF i > Len(a) THEN 0 ELSE a[i] + LimbBase * BToIntFrom(a, i + 1)
BToInt(a) == BToIntFrom(a, 1)

RECURSIVE BAddFrom(_, _, _, _)
BAddFrom(a, b, i, c) ==
    IF i > Len(a) /\ i > Len(b) THEN (IF c = 0 THEN <<>> ELSE <<c>>)
    ELSE LET s == Limb(a, i) + Limb(b, i) + c
         IN  <<s % LimbBase>> \o BAddFrom(a, b, i + 1, s \div LimbBase)
BAdd(a, b) == BAddFrom(a, b, 1, 0)

\* a - b for a >= b
RECURSIVE BSubFrom(_, _, _, _)
BSubFrom(a, b, i, c) ==
    IF i > Len(a) THEN <<>>
    ELSE LET s == a[i] - Limb(b, i) - c
         IN  IF s < 0 THEN <<s + LimbBase>> \o BSubFrom(a, b, i + 1, 1)
             ELSE <<s>> \o BSubFrom(a, b, i + 1, 0)
BSub(a, b) == BTrim(BSubFrom(a, b, 1, 0))

\* -1, 0, 1 as a < b, a = b, a > b
RECURSIVE BCmpFrom(_, _, _)
BCmpFrom(a, b, i) ==
    IF i = 0 THEN 0
    ELSE IF a[i] < b[i] THEN -1
    ELSE IF a[i] > b[i] THEN 1
    ELSE BCmpFrom(a, b, i - 1)
BCmp(a, b) ==
    IF Len(a) < Len(b) THEN -1
    ELSE IF Len(a) > Len(b) THEN 1
    ELSE BCmpFrom(a, b, Len(a))

RECURSIVE BMulLimbFrom(_, _, _, _)
BMulLimbFrom(a, x, i, c) ==
    IF i > Len(a) THEN (IF c = 0 THEN <<>> ELSE <<c>>)
    ELSE LET p == a[i] * x + c
         IN  <<p % LimbBase>> \o BMulLimbFrom(a, x, i + 1, p \div LimbBase)
BMulLimb(a, x) == IF x = 0 THEN <<>> ELSE BMulLimbFrom(a, x, 1, 0)

RECURSIVE BMulFrom(_, _, _)
BMulFrom(a, b, i) ==
    IF i > Len(b) THEN <<>>
    ELSE BAdd(IF b[i] = 0 THEN <<>> ELSE Zeros(i - 1) \o BMulLimb(a, b[i]),
              BMulFrom(a, b, i + 1))
BMul(a, b) == BMulFrom(a, b, 1)

\* a * 2^k
BShl(a, k) ==
    IF a = <<>> THEN a ELSE Zeros(k \div LimbBits) \o BMulLimb(a, 2 ^ (k % LimbBits))

\* floor(a / 2^k)
BShr(a, k) ==
    LET q == k \div LimbBits
        r == k % LimbBits
    IN  IF q >= Len(a) THEN <<>>
        ELSE LET hi == SubSeq(a, q + 1, Len(a))
             IN  IF r = 0 THEN hi
                 ELSE BTrim([i \in 1..Len(hi) |->
                               (hi[i] \div (2 ^ r))
                                 + (Limb(hi, i + 1) % (2 ^ r)) * (2 ^ (LimbBits - r))])

RECURSIVE IntBitLen(_)
IntBitLen(n) == IF n = 0 THEN 0 ELSE 1 + IntBitLen(n \div 2)
BitLen(a) == IF a = <<>> THEN 0 ELSE LimbBits * (Len(a) - 1) + IntBitLen(a[Len(a)])

\* the number of trailing zero bits of a # 0
RECURSIVE IntTz(_)
IntTz(n) == IF n % 2 = 1 THEN 0 ELSE 1 + IntTz(n \div 2)
RECURSIVE ZeroLimbs(_, _)
ZeroLimbs(a, i) == IF a[i] # 0 THEN i - 1 ELSE ZeroLimbs(a, i + 1)
BTz(a) == LET z == ZeroLimbs(a, 1) IN LimbBits * z + IntTz(a[z + 1])

\* Long division, one digit of the quotient at a time: the digit is estimated
\* from the leading digits and lowered until it fits.
RECURSIVE QDigitFix(_, _, _)
QDigitFix(r, d, est) ==
    IF BCmp(BMulLimb(d, est), r) > 0 THEN QDigitFix(r, d, est - 1) ELSE est
QDigit(r, d) ==
    IF BCmp(r, d) < 0 THEN 0
    ELSE LET m == Len(d)
             e0 == (Limb(r, m + 1) * LimbBase + r[m]) \div d[m]
         IN  QDigitFix(r, d, IF e0 > LimbBase - 1 THEN LimbBase - 1 ELSE e0)

RECURSIVE BDivStep(_, _, _, _)
BDivStep(n, d, i, r) ==
    IF i = 0 THEN <<<<>>, r>>
    ELSE LET r1 == BTrim(<<n[i]>> \o r)
             dig == QDigit(r1, d)
             rest == BDivStep(n, d, i - 1, BSub(r1, BMulLimb(d, dig)))
         IN  <<rest[1] \o <<dig>>, rest[2]>>

\* <<floor(n / d), n mod d>> for d # 0
BDivMod(n, d) ==
    LET s == LimbBits - IntBitLen(d[Len(d)])
        nn == BShl(n, s)
        res == BDivStep(nn, BShl(d, s), Len(nn), <<>>)
    IN  <<BTrim(res[1]), BShr(res[2], s)>>

\* floor(sqrt(n)), by Newton's iteration from above
RECURSIVE BSqrtIter(_, _)
BSqrtIter(n, x) ==
    LET y == BShr(BAdd(x, BDivMod(n, x)[1]), 1)
    IN  IF BCmp(y, x) < 0 THEN BSqrtIter(n, y) ELSE x
BSqrt(n) == IF n = <<>> THEN n ELSE BSqrtIter(n, BShl(<<1>>, (BitLen(n) + 1) \div 2))

(***************************************************************************)
(* binary64: 53 bits of mantissa, the last bit of a subnormal worth        *)
(* 2^-1074, overflow to infinity at 2^1024.                                *)
(***************************************************************************)
MantBits == 53
MinExp == -1074
MaxExp == 1024

NaN == <<"nan">>
Inf(s) == <<"inf", s>>
PosInf == Inf(1)
NegInf == Inf(-1)
Zero(s) == <<"fin", s, <<>>, 0>>

IsNaN(a) == a[1] = "nan"
IsInf(a) == a[1] = "inf"
IsFinite(a) == a[1] = "fin"
IsZero(a) == a[1] = "fin" /\ a[3] = <<>>

\* s * M * 2^e, exactly representable, in the one form the model keeps
Canon(s, M, e) ==
    IF M = <<>> THEN Zero(s)
    ELSE IF BitLen(M) + e > MaxExp THEN Inf(s)
    ELSE LET z == BTz(M) IN <<"fin", s, BShr(M, z), e + z>>

\* s * (N + f) * 2^e with 0 <= f < 1, f > 0 iff sticky, rounded to the nearest
\* double, ties to the even mantissa
Round(s, N, e, sticky) ==
    LET k0 == BitLen(N) - MantBits
        k == IF MinExp - e > k0 THEN MinExp - e ELSE k0
    IN  IF k <= 0 THEN Canon(s, N, e)
        ELSE LET q == BShr(N, k)
                 c == BCmp(BSub(N, BShl(q, k)), BShl(<<1>>, k - 1))
                 up == c > 0 \/ (c = 0 /\ (sticky \/ Limb(q, 1) % 2 = 1))
             IN  Canon(s, IF up THEN BAdd(q, <<1>>) ELSE q, e + k)

Abs(n) == IF n < 0 THEN -n ELSE n

\* an integer as a double
ToFloat(k) == Canon(IF k < 0 THEN -1 ELSE 1, BFromInt(Abs(k)), 0)

ExtNeg(a) == IF IsNaN(a) THEN a ELSE [a EXCEPT ![2] = -a[2]]
ExtAbs(a) == IF IsNaN(a) THEN a ELSE [a EXCEPT ![2] = 1]

\* -1, 0, 1 as |a| < |b|, |a| = |b|, |a| > |b|, both finite
CmpMag(a, b) ==
    IF a[3] = <<>> THEN (IF b[3] = <<>> THEN 0 ELSE -1)
    ELSE IF b[3] = <<>> THEN 1
    ELSE LET ta == BitLen(a[3]) + a[4]
             tb == BitLen(b[3]) + b[4]
             e == IF a[4] < b[4] THEN a[4] ELSE b[4]
         IN  IF ta < tb THEN -1
             ELSE IF ta > tb THEN 1
             ELSE BCmp(BShl(a[3], a[4] - e), BShl(b[3], b[4] - e))

\* a + b; an operand too small to reach the rounding bit of the other leaves it
ExtAdd(a, b) ==
    IF IsNaN(a) \/ IsNaN(b) THEN NaN
    ELSE IF IsInf(a) THEN (IF IsInf(b) /\ a[2] # b[2] THEN NaN ELSE a)
    ELSE IF IsInf(b) THEN b
    ELSE IF IsZero(a) /\ IsZero(b) THEN Zero(IF a[2] = -1 /\ b[2] = -1 THEN -1 ELSE 1)
    ELSE IF IsZero(a) THEN b
    ELSE IF IsZero(b) THEN a
    ELSE IF BitLen(a[3]) + a[4] > BitLen(b[3]) + b[4] + MantBits + 2 THEN a
    ELSE IF BitLen(b[3]) + b[4] > BitLen(a[3]) + a[4] + MantBits + 2 THEN b
    ELSE LET e == IF a[4] < b[4] THEN a[4] ELSE b[4]
             A == BShl(a[3], a[4] - e)
             B == BShl(b[3], b[4] - e)
             c == BCmp(A, B)
         IN  IF a[2] = b[2] THEN Round(a[2], BAdd(A, B), e, FALSE)
             ELSE IF c = 0 THEN Zero(1)
             ELSE IF c > 0 THEN Round(a[2], BSub(A, B), e, FALSE)
             ELSE Round(b[2], BSub(B, A), e, FALSE)

ExtSub(a, b) == ExtAdd(a, ExtNeg(b))

ExtMul(a, b) ==
    IF IsNaN(a) \/ IsNaN(b) THEN NaN
    ELSE IF IsInf(a) \/ IsInf(b)
         THEN (IF IsZero(a) \/ IsZero(b) THEN NaN ELSE Inf(a[2] * b[2]))
    ELSE IF IsZero(a) \/ IsZero(b) THEN Zero(a[2] * b[2])
    ELSE Round(a[2] * b[2], BMul(a[3], b[3]), a[4] + b[4], FALSE)

\* a / b: exact but for the exponent range when b is a power of two, else the
\* quotient of the mantissas to 55 bits or more, the rest sticky
ExtDiv(a, b) ==
    IF IsNaN(a) \/ IsNaN(b) THEN NaN
    ELSE IF IsInf(a) THEN (IF IsInf(b) THEN NaN ELSE Inf(a[2] * b[2]))
    ELSE IF IsInf(b) THEN Zero(a[2] * b[2])
    ELSE IF IsZero(b) THEN (IF IsZero(a) THEN NaN ELSE Inf(a[2] * b[2]))
    ELSE IF IsZero(a) THEN Zero(a[2] * b[2])
    ELSE IF b[3] = <<1>> THEN Round(a[2] * b[2], a[3], a[4] - b[4], FALSE)
    ELSE LET need == BitLen(b[3]) + MantBits + 2 - BitLen(a[3])
             k == IF need > 0 THEN need ELSE 0
             qr == BDivMod(BShl(a[3], k), b[3])
         IN  Round(a[2] * b[2], qr[1], a[4] - b[4] - k, qr[2] # <<>>)

\* np.sqrt: the integer root of the mantissa scaled to an even exponent
ExtSqrt(a) ==
    IF IsNaN(a) THEN NaN
    ELSE IF IsZero(a) THEN a
    ELSE IF a[2] = -1 THEN NaN
    ELSE IF IsInf(a) THEN a
    ELSE LET need == 2 * MantBits + 4 - BitLen(a[3])
             k0 == IF need > 0 THEN need ELSE 0
             k == IF (a[4] - k0) % 2 = 0 THEN k0 ELSE k0 + 1
             N == BShl(a[3], k)
             q == BSqrt(N)
         IN  Round(1, q, (a[4] - k) \div 2, BMul(q, q) # N)

\* IEEE comparisons: every comparison with NaN is false, the two zeros are equal.
ExtLt(a, b) ==
    IF IsNaN(a) \/ IsNaN(b) THEN FALSE
    ELSE IF IsInf(a) THEN a[2] = -1 /\ b # a
    ELSE IF IsInf(b) THEN b[2] = 1
    ELSE IF IsZero(a) /\ IsZero(b) THEN FALSE
    ELSE IF a[2] # b[2] THEN a[2] < b[2]
    ELSE IF a[2] = 1 THEN CmpMag(a, b) < 0
    ELSE CmpMag(a, b) > 0
ExtGt(a, b) == ExtLt(b, a)
ExtEq(a, b) == ~IsNaN(a) /\ ~IsNaN(b) /\ (a = b \/ (IsZero(a) /\ IsZero(b)))
ExtGe(a, b) == ExtGt(a, b) \/ ExtEq(a, b)

(***************************************************************************)
(* Sequences and grids.                                                    *)
(***************************************************************************)
\* np.add.reduce over fewer than 8 items: one running sum, first item first.
RECURSIVE SumTo(_, _)
SumTo(s, k) == IF k = 1 THEN s[1] ELSE ExtAdd(SumTo(s, k - 1), s[k])

Reverse(s) == [i \in 1..Len(s) |-> s[Len(s) + 1 - i]]

NumRows(g) == Len(g)
NumCols(g) == Len(g[1])

Column(g, c) == [r \in 1..NumRows(g) |-> g[r][c]]

\* numpy's reading of a Python column index t into a grid of C columns, as a
\* 1-based position: a negative index counts from the end.
PyIndexOk(t, C) == -C <= t /\ t < C
PyIndex(t, C) == IF t < 0 THEN C + t + 1 ELSE t + 1

\* np.mean of a 1-D array: the sum divided by the count.
Mean(s) == ExtDiv(SumTo(s, Len(s)), ToFloat(Len(s)))

\* np.var of a 1-D array (ddof = 0): the mean of the squared deviations.
PopVar(s) ==
    LET m == Mean(s)
    IN  Mean([i \in 1..Len(s) |-> ExtMul(ExtSub(s[i], m), ExtSub(s[i], m))])

\* np.std: the square root of np.var.
PopStd(s) == ExtSqrt(PopVar(s))

(***************************************************************************)
(* Program constants.                                                      *)
(***************************************************************************)
Fifty == 50
Hundred == 100
LIKELY_IN_CACHE_SIZE == 8
DefaultNegControlCol == 0
DefaultNoDrugWithMttCol == 2
DefaultConcentrations == <<1, 2, 4, 8, 16>>
DefaultTreatmentCols == <<3, 4, 5, 6, 7>>

(***************************************************************************)
(* The numeric pipeline, lines 76-89.                                      *)
(***************************************************************************)
\* df.to_numpy(): the float64 columns of the table as one float64 array, row by
\* row, every reading with the value it was parsed to.
ToNumpy(d) == [r \in 1..Len(d) |-> [c \in 1..Len(d[r]) |-> d[r][c]]]

\* Variant: np.sum in place of np.mean for the background.
NegControlSum(g, n) ==
    LET col == Column(g, PyIndex(n, NumCols(g))) IN SumTo(col, Len(col))

\* np.mean(absorbance_data[:, neg_control_col])
NegControlMean(g, n) == Mean(Column(g, PyIndex(n, NumCols(g))))

\* Variant: every column shifted by its own mean (np.mean(..., axis=0)).
BackgroundCorrectPerColumn(g, n) ==
    [r \in 1..NumRows(g) |-> [c \in 1..NumCols(g) |-> ExtSub(g[r][c], Mean(Column(g, c)))]]

\* absorbance_data - <scalar>: broadcast over every cell, into a new array.
BackgroundCorrect(g, n) ==
    LET m == NegControlMean(g, n)
    IN  [r \in 1..NumRows(g) |-> [c \in 1..NumCols(g) |-> ExtSub(g[r][c], m)]]

\* np.mean(background_corrected[:, no_drug_with_mtt_col])
ReferenceMean(bc, u) == Mean(Column(bc, PyIndex(u, NumCols(bc))))

\* Variant: the fraction of the reference, not the percentage.
ViabilityFraction(m, ref) == ExtDiv(m, ref)

\* one entry of line 84: mean / no_drug_with_mtt_mean * 100
ViabilityPct(m, ref) == ExtMul(ExtDiv(m, ref), ToFloat(Hundred))

\* Variant: the curve in the reverse of the order of treatment_cols.
ViabilityReversed(bc, tcols, ref) ==
    [i \in 1..Len(tcols) |->
        ExtMul(ExtDiv(Mean(Column(bc, PyIndex(tcols[Len(tcols) + 1 - i], NumCols(bc)))), ref),
               ToFloat(Hundred))]

\* np.mean(background_corrected[:, treatment_cols], axis=0) / ref * 100:
\* fancy indexing keeps the order of treatment_cols.
Viability(bc, tcols, ref) ==
    [i \in 1..Len(tcols) |->
        ViabilityPct(Mean(Column(bc, PyIndex(tcols[i], NumCols(bc)))), ref)]

\* One entry of line 85: np.std(...) / ref * 100.
StdPct(s, ref) == ExtMul(ExtDiv(PopStd(s), ref), ToFloat(Hundred))

ViabilityStd(bc, tcols, ref) ==
    [i \in 1..Len(tcols) |-> StdPct(Column(bc, PyIndex(tcols[i], NumCols(bc))), ref)]

(***************************************************************************)
(* numpy.interp(x, xp, fp), called at line 89.  Sequences are 1-based, the *)
(* indices of numpy's search are 0-based: At(a, j) is a[j] of the C code.  *)
(***************************************************************************)
At(a, j) == a[j + 1]

\* for (i = 1; i < len && key >= arr[i]; ++i);  return i - 1;
RECURSIVE LinearSearch(_, _, _)
LinearSearch(key, arr, i) ==
    IF i < Len(arr) /\ ExtGe(key, At(arr, i)) THEN LinearSearch(key, arr, i + 1) ELSE i - 1

\* while (imin < imax) { imid = imin + ((imax - imin) >> 1); ... }  return imin - 1;
RECURSIVE Bisect(_, _, _, _)
Bisect(key, arr, imin, imax) ==
    IF imin < imax
    THEN LET imid == imin + ((imax - imin) \div 2)
         IN  IF ExtGe(key, At(arr, imid))
             THEN Bisect(key, arr, imid + 1, imax)
             ELSE Bisect(key, arr, imin, imid)
    ELSE imin - 1

\* binary_search_with_guess: -1 below the first point, len above the last, else
\* the index the search stops at (the bracketing interval when arr is sorted).
BinarySearchWithGuess(key, arr, guess0) ==
    LET len == Len(arr)
        g1 == IF guess0 > len - 3 THEN len - 3 ELSE guess0
        guess == IF g1 < 1 THEN 1 ELSE g1
    IN  IF ExtGt(key, At(arr, len - 1)) THEN len
        ELSE IF ExtLt(key, At(arr, 0)) THEN -1
        ELSE IF len <= 4 THEN LinearSearch(key, arr, 1)
        ELSE IF ExtLt(key, At(arr, guess))
             THEN IF ExtLt(key, At(arr, guess - 1))
                  THEN Bisect(key, arr,
                              IF guess > LIKELY_IN_CACHE_SIZE
                                 /\ ExtGe(key, At(arr, guess - LIKELY_IN_CACHE_SIZE))
                              THEN guess - LIKELY_IN_CACHE_SIZE ELSE 0,
                              guess - 1)
                  ELSE guess - 1
             ELSE IF ExtLt(key, At(arr, guess + 1)) THEN guess
             ELSE IF ExtLt(key, At(arr, guess + 2)) THEN guess + 1
             ELSE Bisect(key, arr, guess + 2,
                         IF guess < len - LIKELY_IN_CACHE_SIZE - 1
                            /\ ExtLt(key, At(arr, guess + LIKELY_IN_CACHE_SIZE))
                         THEN guess + LIKELY_IN_CACHE_SIZE ELSE len)

\* The value on the segment j, j+1; if it is NaN, the other end of the segment
\* is tried, and then the common ordinate of a flat segment.
Segment(x, xp, fp, j) ==
    LET slope == ExtDiv(ExtSub(At(fp, j + 1), At(fp, j)), ExtSub(At(xp, j + 1), At(xp, j)))
        r1 == ExtAdd(ExtMul(slope, ExtSub(x, At(xp, j))), At(fp, j))
        r2 == ExtAdd(ExtMul(slope, ExtSub(x, At(xp, j + 1))), At(fp, j + 1))
    IN  IF ~IsNaN(r1) THEN r1
        ELSE IF IsNaN(r2) /\ ExtEq(At(fp, j), At(fp, j + 1)) THEN At(fp, j)
        ELSE r2

\* Variant: linear extrapolation from the end segments instead of clamping.
InterpExtrapolate(x, xp, fp) ==
    LET len == Len(xp)
    IN  IF len = 1 THEN At(fp, 0)
        ELSE IF IsNaN(x) THEN x
        ELSE LET j == BinarySearchWithGuess(x, xp, 0)
             IN  IF j = -1 THEN Segment(x, xp, fp, 0)
                 ELSE IF j >= len - 1 THEN Segment(x, xp, fp, len - 2)
                 ELSE IF ExtEq(At(xp, j), x) THEN At(fp, j)
                 ELSE Segment(x, xp, fp, j)

\* np.interp for one x, left = fp[0], right = fp[-1]; xp and fp non-empty and of
\* one length (anything else raises ValueError before this is computed).
Interp(x, xp, fp) ==
    LET len == Len(xp)
        lval == At(fp, 0)
        rval == At(fp, len - 1)
    IN  IF len = 1
        THEN (IF ExtLt(x, At(xp, 0)) THEN lval
              ELSE IF ExtGt(x, At(xp, 0)) THEN rval ELSE At(fp, 0))
        ELSE IF IsNaN(x) THEN x
        ELSE LET j == BinarySearchWithGuess(x, xp, 0)
             IN  IF j = -1 THEN lval
                 ELSE IF j = len THEN rval
                 ELSE IF j = len - 1 THEN At(fp, j)
                 ELSE IF ExtEq(At(xp, j), x) THEN At(fp, j)
                 ELSE Segment(x, xp, fp, j)

\* np.interp raises ValueError for empty sample points or unequal lengths.
InterpRaises(xp, fp) == Len(xp) = 0 \/ Len(xp) # Len(fp)

\* Variant: the lookup without reversing the two sequences.
IC50NoReverse(viab, conc) == Interp(ToFloat(Fifty), viab, conc)

\* np.interp(50, viability[::-1], concentrations[::-1])
IC50(viab, conc) == Interp(ToFloat(Fifty), Reverse(viab), Reverse(conc))


(***************************************************************************)
(* f'{x:.2f}': Python rounds the exact binary value of the double to two   *)
(* decimals, half to even.  The text of a finite value is kept as its sign *)
(* ("" or "-"), the decimal digits before the point and the number that    *)
(* the two digits after the point spell; the special values by name.       *)
(***************************************************************************)
\* round-half-even of |x| * 100 for a finite x, as a natural number
Hundredths(x) ==
    IF x[3] = <<>> THEN <<>>
    ELSE LET N == BMulLimb(x[3], Hundred)
         IN  IF x[4] >= 0 THEN BShl(N, x[4])
             ELSE LET k == -x[4]
                      q == BShr(N, k)
                      c == BCmp(BSub(N, BShl(q, k)), BShl(<<1>>, k - 1))
                  IN  IF c > 0 \/ (c = 0 /\ Limb(q, 1) % 2 = 1) THEN BAdd(q, <<1>>) ELSE q

\* the decimal digits of a natural number, the first digit first, found four at
\* a time from the last; low holds the digits found so far.  0 is <<0>>.
RECURSIVE IntDigits(_)
IntDigits(n) == IF n < 10 THEN <<n>> ELSE IntDigits(n \div 10) \o <<n % 10>>
RECURSIVE DigitsFrom(_, _)
DigitsFrom(n, low) ==
    LET qr == BDivMod(n, <<10000>>)
        d == BToInt(qr[2])
    IN  IF qr[1] = <<>> THEN IntDigits(d) \o low
        ELSE DigitsFrom(qr[1],
                        <<d \div 1000, (d \div 100) % 10, (d \div 10) % 10, d % 10>> \o low)
Digits(n) == IF n = <<>> THEN <<0>> ELSE DigitsFrom(n, <<>>)

Format2f(x) ==
    IF IsNaN(x) THEN <<"nan">>
    ELSE IF IsInf(x) THEN (IF x[2] = 1 THEN <<"inf">> ELSE <<"-inf">>)
    ELSE LET qr == BDivMod(Hundredths(x), <<100>>)
         IN  <<IF x[2] = 1 THEN "" ELSE "-", Digits(qr[1]), BToInt(qr[2])>>

(***************************************************************************)
(* Inputs of a run.                                                        *)
(***************************************************************************)
Unset == <<>>
NoMessage == [kind |-> "none", n_conc |-> 0, n_treat |-> 0]

Prefix(s, k) == [i \in 1..k |-> s[i]]
Floats(s) == [i \in 1..Len(s) |-> ToFloat(s[i])]

\* A decimal field of few digits, n / d with d a power of ten, as pd.read_csv and
\* float() parse it: the double nearest to the decimal (0.1 is Reading(1, 10)).
Reading(n, d) == ExtDiv(ToFloat(n), ToFloat(d))

\* The field 2^k written out in digits (1099511627776 for k = 40): exact.
TwoTo(k) == <<"fin", 1, <<1>>, k>>

\* Replicate rows of three columns (the least the column pickers of lines 53-55
\* accept), in pairs: whole-number readings, and absorbances with decimals, whose
\* sums and means round.
WholeRows == <<Floats(<<0, 1, 2>>), Floats(<<2, 1, 3>>)>>
DecimalRows ==
    <<<<Reading(1, 10), Reading(3, 10), Reading(7, 10)>>,
      <<Reading(2, 10), Reading(3, 10), Reading(9, 10)>>>>

\* A row with the field inf and an empty field, which pd.read_csv reads as NaN.
SpecialRow == <<Reading(1, 2), PosInf, NaN>>

\* Tables of 1..MaxRows rows, the odd rows the first reading of the pair p and
\* the even rows the second.
Replicates(p) == {[i \in 1..r |-> IF i % 2 = 1 THEN p[1] ELSE p[2]] : r \in 1..MaxRows}
GeneralGrids == Replicates(WholeRows) \cup {<<SpecialRow>>}
DecimalGrids == Replicates(DecimalRows)

\* What the user may type as treatment columns: in range, one past the end, -1;
\* in any order for one or two columns, beyond that neighbouring columns from
\* left to right or from right to left, or one column repeated.
Monotone(s) ==
    \/ Len(s) <= 2
    \/ \A i \in 1..(Len(s) - 1) : s[i + 1] = s[i] + 1
    \/ \A i \in 1..(Len(s) - 1) : s[i + 1] = s[i] - 1
    \/ \A i \in 1..(Len(s) - 1) : s[i + 1] = s[i]
TreatSeqs(C) == UNION {{s \in [1..k -> (-1)..C] : Monotone(s)} : k \in 1..MaxTreat}
InRangeSeqs(C) == {s \in TreatSeqs(C) : \A i \in 1..Len(s) : s[i] \in 0..(C - 1)}

\* Two doses far apart, close together, with decimals, below 1, and around 0.
DosePairs ==
    {<<ToFloat(1), TwoTo(40)>>, <<ToFloat(1), TwoTo(60)>>, <<TwoTo(-20), TwoTo(20)>>,
     <<Reading(1, 10), Reading(5, 10)>>, <<Reading(25, 10), Reading(26, 10)>>,
     <<Reading(3, 1000), Reading(72, 10)>>, <<ToFloat(-1), ToFloat(3)>>,
     <<ToFloat(0), Reading(1, 10)>>, <<TwoTo(-1074), TwoTo(-1073)>>,
     <<ToFloat(1), TwoTo(1023)>>}

\* What the user may type as doses: the first doses of the default series,
\* ascending or in descending order, and the dose pairs.
DefaultDoses ==
    UNION {{Floats(Prefix(DefaultConcentrations, k)),
            Reverse(Floats(Prefix(DefaultConcentrations, k)))} : k \in 1..MaxTreat}
ConcChoices == DefaultDoses \cup DosePairs

\* Dose-response tables laid out as the defaults expect: one row, background 0 in
\* column 0, the untreated reference 100 in column 2, and in columns 3..7 readings
\* that do not increase with the dose: every such choice among six levels, and
\* a curve that stays above half of the reference.
ViabLevels == {10, 40, 50, 70, 90, 100}
CurveLen == Len(DefaultTreatmentCols)
CurveReadings ==
    {v \in [1..CurveLen -> ViabLevels] : \A i \in 1..(CurveLen - 1) : v[i] >= v[i + 1]}
        \cup {<<100, 95, 90, 85, 80>>}
CurveGrids == {<<Floats(<<0, 0, 100>> \o v)>> : v \in CurveReadings}

\* One-row tables of four columns, background, reference and two treatments,
\* whose two viabilities lie on either side of 50: readings a last bit away from
\* half of a reference that is a power of 2, a reading far below the background,
\* and absorbances with decimals.
HalfReadings ==
    {<<ToFloat(0), TwoTo(41), ExtAdd(TwoTo(40), ToFloat(1)), ToFloat(0)>>}
      \cup {<<ToFloat(0), TwoTo(53), a, b>> :
               a \in {ExtAdd(TwoTo(52), ToFloat(1)), ExtAdd(TwoTo(52), TwoTo(20)), TwoTo(53)},
               b \in {ToFloat(0), ExtSub(TwoTo(52), ToFloat(1)), ExtNeg(TwoTo(150))}}
      \cup {<<Reading(5, 100), Reading(105, 100), Reading(65, 100), Reading(35, 100)>>,
            <<Reading(48, 1000), Reading(1213, 1000), Reading(702, 1000), Reading(455, 1000)>>,
            <<Reading(1, 10), Reading(9, 10), Reading(501, 1000), Reading(499, 1000)>>}
HalfGrids == {<<row>> : row \in HalfReadings}

InitCommon ==
    /\ pc = "start"
    /\ message = NoMessage
    /\ absorbance_data = Unset
    /\ background_corrected = Unset
    /\ no_drug_with_mtt_mean = Unset
    /\ viability = Unset
    /\ viability_std = Unset
    /\ ic50_concentration = Unset
    /\ ic50_text = Unset

\* Neither the example data nor an upload: the widgets below line 36 never run.
InitNoData ==
    /\ df = <<>>
    /\ neg_control_col = DefaultNegControlCol
    /\ no_drug_with_mtt_col = DefaultNoDrugWithMttCol
    /\ concentrations = Floats(DefaultConcentrations)
    /\ treatment_cols = DefaultTreatmentCols

InitGeneral ==
    /\ df \in GeneralGrids
    /\ neg_control_col \in 0..(NumCols(df) - 1)
    /\ no_drug_with_mtt_col \in 0..(NumCols(df) - 1)
    /\ treatment_cols \in TreatSeqs(NumCols(df))
    /\ concentrations \in DefaultDoses

\* Decimal readings, any columns as controls, treatment columns in range, and
\* as many of the default doses, ascending or descending.
InitDecimal ==
    /\ df \in DecimalGrids
    /\ neg_control_col \in 0..(NumCols(df) - 1)
    /\ no_drug_with_mtt_col \in 0..(NumCols(df) - 1)
    /\ treatment_cols \in InRangeSeqs(NumCols(df))
    /\ concentrations \in {c \in DefaultDoses : Len(c) = Len(treatment_cols)}

\* The default columns, with the default doses or their last one or two deleted.
InitCurve ==
    /\ df \in CurveGrids
    /\ neg_control_col = DefaultNegControlCol
    /\ no_drug_with_mtt_col = DefaultNoDrugWithMttCol
    /\ treatment_cols = DefaultTreatmentCols
    /\ concentrations \in {Floats(Prefix(DefaultConcentrations, k)) : k \in (CurveLen - 2)..CurveLen}

\* Background in column 0, reference in column 1, the treatments in columns 2
\* and 3, with any two doses.
InitHalf ==
    /\ df \in HalfGrids
    /\ neg_control_col = 0
    /\ no_drug_with_mtt_col = 1
    /\ treatment_cols = <<2, 3>>
    /\ concentrations \in {c \in ConcChoices : Len(c) = 2}

Init == InitCommon /\ (InitNoData \/ InitGeneral \/ InitDecimal \/ InitCurve \/ InitHalf)

(***************************************************************************)
(* The script, top to bottom.                                              *)
(***************************************************************************)
Inputs == <<df, neg_control_col, no_drug_with_mtt_col, concentrations, treatment_cols>>
Results == <<absorbance_data, background_corrected, no_drug_with_mtt_mean,
             viability, viability_std, ic50_concentration, ic50_text>>

\* Lines 34-36: no table, st.warning and st.stop.
NoData ==
    /\ pc = "start"
    /\ df = <<>>
    /\ message' = [kind |-> "NoData", n_conc |-> 0, n_treat |-> 0]
    /\ pc' = "stopped"
    /\ UNCHANGED <<Inputs, Results>>

\* Variant: only a surplus of doses is reported.
LengthsDifferOnlyLonger(conc, tcols) == Len(conc) > Len(tcols)

\* Line 70: the one check the script makes on the parsed inputs.
LengthsDiffer(conc, tcols) == Len(conc) # Len(tcols)

\* Lines 70-72: st.error with both counts, st.stop.
ShapeMismatch ==
    /\ pc = "start"
    /\ df # <<>>
    /\ LengthsDiffer(concentrations, treatment_cols)
    /\ message' = [kind |-> "ShapeMismatch",
                   n_conc |-> Len(concentrations), n_treat |-> Len(treatment_cols)]
    /\ pc' = "stopped"
    /\ UNCHANGED <<Inputs, Results>>

\* Lines 70-75: the check passes and the script reaches the button.
ValidationPassed ==
    /\ pc = "start"
    /\ df # <<>>
    /\ ~LengthsDiffer(concentrations, treatment_cols)
    /\ pc' = "button"
    /\ UNCHANGED <<Inputs, Results, message>>

\* Line 75, st.button(...) is False: the run ends with nothing computed.
ButtonNotClicked ==
    /\ pc = "button"
    /\ pc' = "idle"
    /\ UNCHANGED <<Inputs, Results, message>>

\* Variant: the subtraction done in place (absorbance_data -= ...), on the
\* buffer the table shares with the array.
BackgroundCorrectionInPlace ==
    /\ pc = "button"
    /\ df' = BackgroundCorrect(ToNumpy(df), neg_control_col)
    /\ absorbance_data' = BackgroundCorrect(ToNumpy(df), neg_control_col)
    /\ background_corrected' = BackgroundCorrect(ToNumpy(df), neg_control_col)
    /\ pc' = "normalize"
    /\ UNCHANGED <<neg_control_col, no_drug_with_mtt_col, concentrations, treatment_cols,
                   message, no_drug_with_mtt_mean, viability, viability_std,
                   ic50_concentration, ic50_text>>

\* Lines 75-79, the button was clicked: to_numpy and the background correction.
BackgroundCorrection ==
    /\ pc = "button"
    /\ absorbance_data' = ToNumpy(df)
    /\ background_corrected' = BackgroundCorrect(ToNumpy(df), neg_control_col)
    /\ pc' = "normalize"
    /\ UNCHANGED <<Inputs, message, no_drug_with_mtt_mean, viability, viability_std,
                   ic50_concentration, ic50_text>>

TreatmentIndicesOk(bc, tcols) ==
    \A i \in 1..Len(tcols) : PyIndexOk(tcols[i], NumCols(bc))

\* Lines 82-85: the reference mean, then mean and deviation per treatment column.
Normalization ==
    /\ pc = "normalize"
    /\ TreatmentIndicesOk(background_corrected, treatment_cols)
    /\ LET ref == ReferenceMean(background_corrected, no_drug_with_mtt_col)
       IN  /\ no_drug_with_mtt_mean' = ref
           /\ viability' = Viability(background_corrected, treatment_cols, ref)
           /\ viability_std' = ViabilityStd(background_corrected, treatment_cols, ref)
    /\ pc' = "estimate"
    /\ UNCHANGED <<Inputs, message, absorbance_data, background_corrected,
                   ic50_concentration, ic50_text>>

\* Lines 82-84: the reference mean is computed, then the fancy index of line 84
\* raises IndexError, which nothing catches.
NormalizationIndexError ==
    /\ pc = "normalize"
    /\ ~TreatmentIndicesOk(background_corrected, treatment_cols)
    /\ no_drug_with_mtt_mean' = ReferenceMean(background_corrected, no_drug_with_mtt_col)
    /\ message' = [kind |-> "IndexError", n_conc |-> 0, n_treat |-> 0]
    /\ pc' = "crashed"
    /\ UNCHANGED <<Inputs, absorbance_data, background_corrected, viability,
                   viability_std, ic50_concentration, ic50_text>>

\* Lines 88-92: np.interp inside try; a ValueError ends the run with st.error.
IC50Estimation ==
    /\ pc = "estimate"
    /\ IF InterpRaises(Reverse(viability), Reverse(concentrations))
       THEN /\ message' = [kind |-> "IC50Error", n_conc |-> 0, n_treat |-> 0]
            /\ pc' = "stopped"
            /\ UNCHANGED ic50_concentration
       ELSE /\ ic50_concentration' = IC50(viability, concentrations)
            /\ pc' = "plot"
            /\ UNCHANGED message
    /\ UNCHANGED <<Inputs, absorbance_data, background_corrected, no_drug_with_mtt_mean,
                   viability, viability_std, ic50_text>>

\* Line 96, ax.errorbar(..., yerr=viability_std): matplotlib (3.4 and later)
\* rejects an error bar below zero; NaN entries are skipped by its test and a
\* zero of either sign is not below zero.
NegativeYerr(stds) ==
    \E i \in 1..Len(stds) : ExtLt(stds[i], ToFloat(0))

\* Lines 95-96: ax.errorbar raises ValueError("'yerr' must not contain negative
\* values"), outside the try of lines 88-92: nothing catches it, and neither the
\* plot nor the result line is produced.
PlotError ==
    /\ pc = "plot"
    /\ NegativeYerr(viability_std)
    /\ message' = [kind |-> "ValueError", n_conc |-> 0, n_treat |-> 0]
    /\ pc' = "crashed"
    /\ UNCHANGED <<Inputs, Results>>

\* Lines 95-112: the plot and the result line, both showing the estimate to two
\* decimals.
Display ==
    /\ pc = "plot"
    /\ ~NegativeYerr(viability_std)
    /\ ic50_text' = Format2f(ic50_concentration)
    /\ pc' = "done"
    /\ UNCHANGED <<Inputs, message, absorbance_data, background_corrected,
                   no_drug_with_mtt_mean, viability, viability_std, ic50_concentration>>

Next ==
    \/ NoData
    \/ ShapeMismatch
    \/ ValidationPassed
    \/ ButtonNotClicked
    \/ BackgroundCorrection
    \/ Normalization
    \/ NormalizationIndexError
    \/ IC50Estimation
    \/ PlotError
    \/ Display

Spec == Init /\ [][Next]_vars

(***************************************************************************)
(* Helpers of the properties below.                                        *)
(***************************************************************************)
NegPos == PyIndex(neg_control_col, NumCols(df))
RefPos == PyIndex(no_drug_with_mtt_col, NumCols(df))
TreatPos(i) == PyIndex(treatment_cols[i], NumCols(df))

StrictlyAscending(s) == \A i \in 1..(Len(s) - 1) : ExtLt(s[i], s[i + 1])
NonIncreasing(s) == \A i \in 1..(Len(s) - 1) : ExtGe(s[i], s[i + 1])
AllFinite(s) == \A i \in 1..Len(s) : IsFinite(s[i])

\* Exact arithmetic on the values of finite doubles: <<s, N, e>> is the number
\* s * N * 2^e, N a natural number of any size; nothing is rounded.
Dy(x) == <<x[2], x[3], x[4]>>
DyInt(k) == <<IF k < 0 THEN -1 ELSE 1, BFromInt(Abs(k)), 0>>
DyNeg(a) == <<-a[1], a[2], a[3]>>
DyAbs(a) == <<1, a[2], a[3]>>
DyIsZero(a) == a[2] = <<>>
DyMul(a, b) ==
    IF DyIsZero(a) \/ DyIsZero(b) THEN <<1, <<>>, 0>>
    ELSE <<a[1] * b[1], BMul(a[2], b[2]), a[3] + b[3]>>
DyAdd(a, b) ==
    IF DyIsZero(a) THEN b
    ELSE IF DyIsZero(b) THEN a
    ELSE LET e == IF a[3] < b[3] THEN a[3] ELSE b[3]
             A == BShl(a[2], a[3] - e)
             B == BShl(b[2], b[3] - e)
         IN  IF a[1] = b[1] THEN <<a[1], BAdd(A, B), e>>
             ELSE IF BCmp(A, B) >= 0 THEN <<a[1], BSub(A, B), e>>
             ELSE <<b[1], BSub(B, A), e>>
DySub(a, b) == DyAdd(a, DyNeg(b))
DyLe(a, b) == LET d == DySub(b, a) IN DyIsZero(d) \/ d[1] = 1
DyEq(a, b) == DyIsZero(DySub(a, b))

\* The interpolation point as np.interp computes it, from the upper dose, every
\* operation rounded as a double:
\* conc[k+1] + (conc[k] - conc[k+1]) / (v[k] - v[k+1]) * (50 - v[k+1]).
CrossingFromAbove(v, c, k) ==
    ExtAdd(ExtMul(ExtDiv(ExtSub(c[k], c[k + 1]), ExtSub(v[k], v[k + 1])),
                  ExtSub(ToFloat(Fifty), v[k + 1])),
           c[k + 1])

Straddles(v, k) == ExtGt(v[k], ToFloat(Fifty)) /\ ExtGt(ToFloat(Fifty), v[k + 1])

\* 2^-49 times the larger magnitude of the doses k and k+1
Tolerance(c, k) ==
    LET a == DyAbs(Dy(c[k]))
        b == DyAbs(Dy(c[k + 1]))
    IN  DyMul(<<1, <<1>>, -49>>, IF DyLe(a, b) THEN b ELSE a)

\* |r - X| <= Tolerance for X the exact value of the formula of the claim,
\* conc[k] + (v[k] - 50) / (v[k] - v[k+1]) * (conc[k+1] - conc[k]); both sides
\* are multiplied by v[k] - v[k+1] > 0, so that no division is needed.
WithinRounding(r, v, c, k) ==
    LET D == DySub(Dy(v[k]), Dy(v[k + 1]))
        err == DySub(DyMul(DySub(Dy(r), Dy(c[k])), D),
                     DyMul(DySub(Dy(v[k]), DyInt(Fifty)), DySub(Dy(c[k + 1]), Dy(c[k]))))
    IN  DyLe(DyAbs(err), DyMul(Tolerance(c, k), D))

\* r >= conc[k] - Tolerance
NotBelow(r, c, k) == DyLe(DySub(Dy(c[k]), Tolerance(c, k)), Dy(r))

\* Magnitudes at which no operation of the interpolation overflows or
\* underflows: a dose is 0 or from 2^-300 up to 2^300, a viability below 2^300.
OrdinaryDose(x) ==
    IsFinite(x) /\ (IsZero(x) \/ (BitLen(x[3]) + x[4] > -300 /\ BitLen(x[3]) + x[4] <= 300))
OrdinaryViability(x) == IsFinite(x) /\ (IsZero(x) \/ BitLen(x[3]) + x[4] <= 300)
OrdinaryPair(v, c, k) ==
    /\ OrdinaryDose(c[k]) /\ OrdinaryDose(c[k + 1])
    /\ OrdinaryViability(v[k]) /\ OrdinaryViability(v[k + 1])

SpecCurveConc == Floats(<<1, 2, 4, 8, 16>>)

\* No operation rounds in np.mean of the sequence s: every partial sum and the
\* quotient have the exact value.
ExactMean(s) ==
    /\ AllFinite(s)
    /\ \A k \in 2..Len(s) :
          /\ IsFinite(SumTo(s, k))
          /\ DyEq(Dy(SumTo(s, k)), DyAdd(Dy(SumTo(s, k - 1)), Dy(s[k])))
    /\ IsFinite(Mean(s))
    /\ DyEq(DyMul(Dy(Mean(s)), DyInt(Len(s))), Dy(SumTo(s, Len(s))))

\* No operation rounds in the mean of the column col, in the subtraction of that
\* mean from the column, and in the mean of the differences: the float64
\* results are those of exact arithmetic.
ExactCorrection(col) ==
    /\ ExactMean(col)
    /\ LET m == Mean(col)
           shifted == [i \in 1..Len(col) |-> ExtSub(col[i], m)]
       IN  /\ \A i \in 1..Len(col) :
                 /\ IsFinite(shifted[i])
                 /\ DyEq(Dy(shifted[i]), DySub(Dy(col[i]), Dy(m)))
           /\ ExactMean(shifted)

(***************************************************************************)
(* C1: background correction is a uniform scalar shift.  Once the          *)
(* corrected grid exists it has the shape of the table, and every cell     *)
(* (r, c), selected or not, equals df[r][c] minus the mean over all rows   *)
(* of the negative-control column.                                         *)
(***************************************************************************)
C1_UniformShift ==
    background_corrected # Unset =>
        LET m == Mean(Column(df, NegPos))
        IN  /\ Len(background_corrected) = Len(df)
            /\ \A r \in 1..Len(df) :
                  /\ Len(background_corrected[r]) = Len(df[r])
                  /\ \A c \in 1..Len(df[r]) :
                        background_corrected[r][c] = ExtSub(df[r][c], m)

\* A three-row table whose negative-control mean is not exact in float64,
\* corrected, with a column that is none of the selected ones.
C1_Witness ==
    /\ pc = "done"
    /\ Len(df) = 3
    /\ ~ExactMean(Column(df, NegPos))
    /\ \E c \in 1..NumCols(df) :
          /\ c # NegPos /\ c # RefPos
          /\ \A i \in 1..Len(treatment_cols) : c # TreatPos(i)
          /\ background_corrected[1][c] # df[1][c]

(***************************************************************************)
(* C2: the viability curve has one entry per treatment column, in the      *)
(* order of treatment_cols: entry i is the mean of the corrected column    *)
(* treatment_cols[i] divided by the mean of the corrected reference column *)
(* times 100.                                                              *)
(***************************************************************************)
C2_ViabilityPerColumnInOrder ==
    viability # Unset =>
        /\ Len(viability) = Len(treatment_cols)
        /\ no_drug_with_mtt_mean = Mean(Column(background_corrected, RefPos))
        /\ \A i \in 1..Len(treatment_cols) :
              viability[i] =
                  ExtMul(ExtDiv(Mean(Column(background_corrected, TreatPos(i))),
                                no_drug_with_mtt_mean), ToFloat(100))

\* Doses typed in descending order with two different finite viabilities: the
\* curve follows treatment_cols, whatever the order of the doses.
C2_Witness ==
    /\ pc = "done"
    /\ Len(viability) = 2
    /\ ExtGt(concentrations[1], concentrations[2])
    /\ treatment_cols[1] > treatment_cols[2]
    /\ AllFinite(viability)
    /\ ExtLt(viability[1], viability[2])

(***************************************************************************)
(* C3 as stated: for ascending doses and non-increasing viabilities, a     *)
(* pair with viability[k] > 50 > viability[k+1] puts the estimate at       *)
(* conc[k] + (v[k] - 50) / (v[k] - v[k+1]) * (conc[k+1] - conc[k]), read   *)
(* as: a number that differs from the exact value of the formula by no     *)
(* more than the rounding of float64 (2^-49 of the larger dose), and       *)
(* strictly between conc[k] and conc[k+1]; doses 1, 2, 4, 8, 16 with       *)
(* viabilities 100, 90, 70, 40, 10 give an estimate strictly between 4     *)
(* and 8 that shows as 6.67.                                               *)
(***************************************************************************)
C3_Original ==
    ic50_concentration # Unset =>
        /\ (StrictlyAscending(concentrations) /\ NonIncreasing(viability)) =>
              (\A k \in 1..(Len(viability) - 1) :
                  Straddles(viability, k) =>
                      /\ IsFinite(viability[k]) /\ IsFinite(viability[k + 1])
                      /\ IsFinite(concentrations[k]) /\ IsFinite(concentrations[k + 1])
                      /\ IsFinite(ic50_concentration)
                      /\ WithinRounding(ic50_concentration, viability, concentrations, k)
                      /\ ExtLt(concentrations[k], ic50_concentration)
                      /\ ExtLt(ic50_concentration, concentrations[k + 1]))
        /\ (concentrations = SpecCurveConc /\ viability = Floats(<<100, 90, 70, 40, 10>>)) =>
              (/\ ExtLt(ToFloat(4), ic50_concentration)
               /\ ExtLt(ic50_concentration, ToFloat(8))
               /\ (pc = "done" => ic50_text = <<"", <<6>>, 67>>))

(***************************************************************************)
(* C3 amended: for finite ascending doses and finite non-increasing        *)
(* viabilities, a pair with viability[k] > 50 > viability[k+1] puts the    *)
(* estimate at the float64 value of conc[k+1] + (conc[k] - conc[k+1]) /    *)
(* (v[k] - v[k+1]) * (50 - v[k+1]).  When the doses of the pair are 0 or   *)
(* of a magnitude from 2^-300 up to 2^300 and its viabilities below 2^300, *)
(* that value is finite, differs from the exact value of the stated        *)
(* formula by at most 2^-49 times the larger magnitude of the two doses,   *)
(* is at most conc[k+1] and at least conc[k] less that tolerance.  Doses   *)
(* 1, 2, 4, 8, 16 with viabilities 100, 90, 70, 40, 10 give                *)
(* 8 + (-4 / 30) * 10, strictly between 4 and 8, displayed as 6.67.        *)
(***************************************************************************)
C3_InteriorCrossing ==
    ic50_concentration # Unset =>
        /\ (StrictlyAscending(concentrations) /\ NonIncreasing(viability)
              /\ AllFinite(concentrations) /\ AllFinite(viability)) =>
              (\A k \in 1..(Len(viability) - 1) :
                  Straddles(viability, k) =>
                      /\ ic50_concentration = CrossingFromAbove(viability, concentrations, k)
                      /\ OrdinaryPair(viability, concentrations, k) =>
                            /\ IsFinite(ic50_concentration)
                            /\ WithinRounding(ic50_concentration, viability, concentrations, k)
                            /\ NotBelow(ic50_concentration, concentrations, k)
                            /\ ExtGe(concentrations[k + 1], ic50_concentration))
        /\ (concentrations = SpecCurveConc /\ viability = Floats(<<100, 90, 70, 40, 10>>)) =>
              (/\ ic50_concentration =
                     ExtAdd(ToFloat(8), ExtMul(ExtDiv(ToFloat(-4), ToFloat(30)), ToFloat(10)))
               /\ ExtLt(ToFloat(4), ic50_concentration)
               /\ ExtLt(ic50_concentration, ToFloat(8))
               /\ (pc = "done" => ic50_text = <<"", <<6>>, 67>>))

\* The curve of the spec's example, finished: the estimate lies inside the
\* segment from 4 to 8, within the tolerance of the formula, and shows as 6.67.
C3_Witness ==
    /\ pc = "done"
    /\ concentrations = SpecCurveConc
    /\ viability = Floats(<<100, 90, 70, 40, 10>>)
    /\ Straddles(viability, 3)
    /\ WithinRounding(ic50_concentration, viability, concentrations, 3)
    /\ ic50_text = <<"", <<6>>, 67>>

(***************************************************************************)
(* C4: clamping.  For ascending doses and non-increasing viabilities, when *)
(* every viability is above 50 the estimate is the last (largest) dose,    *)
(* when every viability is below 50 it is the first dose; in both cases it *)
(* is one of the supplied doses, never a value beyond them.  Viabilities   *)
(* 100, 95, 90, 85, 80 at doses 1, 2, 4, 8, 16 give 16.                    *)
(***************************************************************************)
C4_Clamping ==
    ic50_concentration # Unset =>
        /\ (StrictlyAscending(concentrations) /\ NonIncreasing(viability)) =>
              (/\ (\A i \in 1..Len(viability) : ExtGt(viability[i], ToFloat(Fifty)))
                     => ic50_concentration = concentrations[Len(concentrations)]
               /\ (\A i \in 1..Len(viability) : ExtLt(viability[i], ToFloat(Fifty)))
                     => ic50_concentration = concentrations[1])
        /\ (concentrations = SpecCurveConc /\ viability = Floats(<<100, 95, 90, 85, 80>>))
              => ic50_concentration = ToFloat(16)

C4_Witness ==
    /\ pc = "done"
    /\ concentrations = SpecCurveConc
    /\ viability = Floats(<<100, 95, 90, 85, 80>>)
    /\ ic50_concentration = ToFloat(16)

(***************************************************************************)
(* C5: a shape mismatch fails fast.  When the number of doses differs from *)
(* the number of treatment columns the run can only stop with a message    *)
(* carrying both counts, and no numeric result is ever produced;           *)
(* conversely a numeric step is reached only with equal counts.            *)
(***************************************************************************)
NothingComputed ==
    /\ absorbance_data = Unset
    /\ background_corrected = Unset
    /\ no_drug_with_mtt_mean = Unset
    /\ viability = Unset
    /\ viability_std = Unset
    /\ ic50_concentration = Unset
    /\ ic50_text = Unset

C5_ShapeMismatchFailFast ==
    /\ (df # <<>> /\ Len(concentrations) # Len(treatment_cols)) =>
          /\ pc \in {"start", "stopped"}
          /\ NothingComputed
          /\ pc = "stopped" =>
                message = [kind |-> "ShapeMismatch", n_conc |-> Len(concentrations),
                           n_treat |-> Len(treatment_cols)]
    /\ (pc \in {"normalize", "estimate", "plot", "done", "crashed"} \/ ~NothingComputed) =>
          Len(concentrations) = Len(treatment_cols)

\* Four doses for five treatment columns: stopped, both counts in the message.
C5_Witness ==
    /\ pc = "stopped"
    /\ message = [kind |-> "ShapeMismatch", n_conc |-> 4, n_treat |-> 5]
    /\ NothingComputed

(***************************************************************************)
(* C6 as stated: index validation precedes all numeric work.  If any       *)
(* treatment column index lies outside [0, columnCount), no numeric step   *)
(* executes: neither the corrected grid, nor the reference mean, nor a     *)
(* viability is ever computed in that run.                                 *)
(***************************************************************************)
SomeIndexOutOfRange ==
    /\ df # <<>>
    /\ \/ neg_control_col \notin 0..(NumCols(df) - 1)
       \/ no_drug_with_mtt_col \notin 0..(NumCols(df) - 1)
       \/ \E i \in 1..Len(treatment_cols) : treatment_cols[i] \notin 0..(NumCols(df) - 1)

C6_IndexValidationFirst ==
    SomeIndexOutOfRange =>
        /\ background_corrected = Unset
        /\ no_drug_with_mtt_mean = Unset
        /\ viability = Unset

(***************************************************************************)
(* C7 as stated: viability[i] = 100 exactly when the mean of the corrected *)
(* treatment column equals the reference mean, for every selection, a zero *)
(* reference mean included.                                                *)
(***************************************************************************)
C7_Original ==
    viability # Unset =>
        \A i \in 1..Len(viability) :
            ExtEq(viability[i], ToFloat(100))
              <=> ExtEq(Mean(Column(background_corrected, TreatPos(i))), no_drug_with_mtt_mean)

(***************************************************************************)
(* C7 amended: whenever the reference mean is finite and not 0,            *)
(* viability[i] = 100 exactly when the mean of the corrected treatment     *)
(* column equals the reference mean; when the reference mean is 0,         *)
(* infinite or NaN no entry is 100.                                        *)
(***************************************************************************)
C7_HundredIffEqualMeans ==
    viability # Unset =>
        \A i \in 1..Len(viability) :
            IF IsFinite(no_drug_with_mtt_mean) /\ ~IsZero(no_drug_with_mtt_mean)
            THEN ExtEq(viability[i], ToFloat(100))
                   <=> ExtEq(Mean(Column(background_corrected, TreatPos(i))),
                             no_drug_with_mtt_mean)
            ELSE ~ExtEq(viability[i], ToFloat(100))

\* A treatment column other than the reference column, with the same corrected
\* mean, reads 100; another treatment column does not.
C7_Witness ==
    /\ viability # Unset
    /\ IsFinite(no_drug_with_mtt_mean)
    /\ ~IsZero(no_drug_with_mtt_mean)
    /\ Len(viability) = 2
    /\ TreatPos(1) # RefPos
    /\ Column(background_corrected, TreatPos(1)) # Column(background_corrected, RefPos)
    /\ viability[1] = ToFloat(100)
    /\ viability[2] # ToFloat(100)

(***************************************************************************)
(* C8 as stated: numeric edge cases never raise.  Once the validation has  *)
(* passed, the run never ends in an error state: a clicked run reaches an  *)
(* IC50 value; and with a zero reference mean every viability is           *)
(* non-finite and the estimator still returns a value.                     *)
(***************************************************************************)
C8_NeverRaises ==
    /\ pc # "crashed"
    /\ message.kind \notin {"IndexError", "IC50Error", "ValueError"}
    /\ (viability # Unset /\ IsZero(no_drug_with_mtt_mean)) =>
          \A i \in 1..Len(viability) : ~IsFinite(viability[i])
    /\ pc \in {"plot", "done"} => ic50_concentration # Unset

(***************************************************************************)
(* C9: no step changes the loaded table; the array read from it stays as   *)
(* read, the corrected grid being a separate value.                        *)
(***************************************************************************)
C9_GridNeverMutated ==
    [][/\ df' = df
       /\ absorbance_data # Unset => absorbance_data' = absorbance_data]_vars

\* A finished run whose corrected grid differs from the table as read.
C9_Witness ==
    /\ pc = "done"
    /\ absorbance_data = ToNumpy(df)
    /\ background_corrected # absorbance_data

(***************************************************************************)
(* C10 as stated: in exact arithmetic, that is whenever the mean of the    *)
(* negative-control column, its subtraction and the mean of the            *)
(* differences involve no rounding, the corrected negative-control column  *)
(* has mean 0, so with the reference column equal to the negative-control  *)
(* column the reference mean is 0 and no viability is finite; and a        *)
(* treatment column equal to the reference column always reads exactly 100 *)
(* when the reference mean is not 0 (referenceMean != 0).                  *)
(***************************************************************************)
C10_Original ==
    /\ (background_corrected # Unset /\ ExactCorrection(Column(df, NegPos))) =>
          IsZero(Mean(Column(background_corrected, NegPos)))
    /\ (viability # Unset /\ no_drug_with_mtt_col = neg_control_col
          /\ ExactCorrection(Column(df, NegPos))) =>
          /\ IsZero(no_drug_with_mtt_mean)
          /\ \A i \in 1..Len(viability) : ~IsFinite(viability[i])
    /\ (viability # Unset /\ ~ExtEq(no_drug_with_mtt_mean, ToFloat(0))) =>
          \A i \in 1..Len(viability) :
              TreatPos(i) = RefPos => ExtEq(viability[i], ToFloat(100))

(***************************************************************************)
(* C10 amended: whenever the mean of the negative-control column, its      *)
(* subtraction and the mean of the differences involve no rounding, the    *)
(* corrected negative-control column has mean 0, so with the reference     *)
(* column equal to the negative-control column the reference mean is 0     *)
(* and no viability is finite; in every run with these two columns equal   *)
(* the reference mean is the mean of the corrected negative-control        *)
(* column, and no viability is finite when it is 0; a treatment column     *)
(* equal to the reference column reads exactly 100 when the reference mean *)
(* is finite and not 0.                                                    *)
(***************************************************************************)
C10_DegenerateSelections ==
    /\ (background_corrected # Unset /\ ExactCorrection(Column(df, NegPos))) =>
          IsZero(Mean(Column(background_corrected, NegPos)))
    /\ (viability # Unset /\ no_drug_with_mtt_col = neg_control_col) =>
          /\ no_drug_with_mtt_mean = Mean(Column(background_corrected, NegPos))
          /\ ExactCorrection(Column(df, NegPos)) => IsZero(no_drug_with_mtt_mean)
          /\ IsZero(no_drug_with_mtt_mean) =>
                \A i \in 1..Len(viability) : ~IsFinite(viability[i])
    /\ (viability # Unset /\ IsFinite(no_drug_with_mtt_mean)
          /\ ~IsZero(no_drug_with_mtt_mean)) =>
          \A i \in 1..Len(viability) :
              TreatPos(i) = RefPos => viability[i] = ToFloat(100)

\* Reference and negative control on one column of a two-row table whose two
\* control readings differ and whose correction involves no rounding: the
\* reference mean is 0 and the run ends with two viabilities, neither finite.
C10_Witness ==
    /\ pc = "done"
    /\ Len(df) = 2
    /\ no_drug_with_mtt_col = neg_control_col
    /\ ExactCorrection(Column(df, NegPos))
    /\ df[1][NegPos] # df[2][NegPos]
    /\ IsZero(no_drug_with_mtt_mean)
    /\ Len(viability) = 2
    /\ \A i \in 1..Len(viability) : ~IsFinite(viability[i])

====
